---------------------------- MODULE Spec2Model ----------------------------
(***************************************************************************)
(* Model of the Telegram JSON processor:                                   *)
(*   backend/processor.py  parse_telegram_json (the Normalizer) and        *)
(*                         split_by_context_blocks (the Windower)          *)
(*   backend/exporters.py  ExportOptions, _row, _row_flat, export_*        *)
(*   backend/main.py       the /process handler                            *)
(*                                                                         *)
(* Python strings are sequences of Unicode code points, so that            *)
(* str.split(), int(), str() and string comparison are computed, not       *)
(* assumed.  Python values of dynamic type (the parsed JSON) are tagged    *)
(* records [t |-> type, v |-> value].  A Python list of objects is a       *)
(* sequence of references: a block of the Windower is a sequence of        *)
(* indices into the list of messages, which keeps object identity apart    *)
(* from equality of values.                                                *)
(***************************************************************************)
EXTENDS Integers, Sequences, FiniteSets, TLC

VARIABLES
    \* ---- split_by_context_blocks (processor.py:152-186)
    messages,          \* the argument: list of TelegramMessage
    max_words,         \* the argument
    overlap_messages,  \* the argument
    chunks,            \* list of blocks, each a list of references into messages
    current,           \* the accumulator
    current_words,     \* its running word total
    overlap_buf,       \* the last overlap seed
    idx,               \* position of the for loop over messages
    wpc,               \* "idle" | "entry" | "loop" | "flush" | "done"
    \* ---- parse_telegram_json (processor.py:113-142)
    data,              \* the argument: the parsed JSON document
    tzoff,             \* the local time zone of the process, seconds east of UTC
    chats_raw,         \* the chats the loop of line 134 iterates
    ci,                \* chats already taken from chats_raw
    chat_messages,     \* what _iter_messages_from_chat iterates for the chat
    mi,                \* entries already taken from chat_messages
    raw,               \* the raw message of the last _parse_message call
    msg,               \* what that call returned
    objs,              \* the TelegramMessage objects created, in creation order
    out,               \* the list out: references into objs
    npc,               \* "idle" | "entry" | "chat" | "msg" | "returned" | "raised"
    nexc,              \* the exception that left parse_telegram_json
    \* ---- the /process handler (main.py:36-99)
    request,           \* the form: filename, content, format, word_count, overlap, flags
    openpyxl,          \* whether the openpyxl package is installed
    fmt,               \* the format chosen (lines 51-53)
    opts,              \* the ExportOptions (lines 55-60)
    proc_messages,     \* messages: what parse_telegram_json returned
    proc_chunks,       \* chunks: blocks of references into proc_messages
    bi,                \* blocks already written to the archive
    zf,                \* the archive: a list of [name, content]
    resp,              \* the HTTP status answered, 0 while there is none
    pexc,              \* the exception that left the handler
    ppc                \* "idle" | "entry" | "parse" | "split" | "export" | "responded" | "raised"

winVars == <<messages, max_words, overlap_messages, chunks, current,
             current_words, overlap_buf, idx, wpc>>

normVars == <<data, tzoff, chats_raw, ci, chat_messages, mi, raw, msg, objs,
              out, npc, nexc>>

procVars == <<request, openpyxl, fmt, opts, proc_messages, proc_chunks, bi, zf,
              resp, pexc, ppc>>

vars == <<winVars, normVars, procVars>>

-----------------------------------------------------------------------------
(* Bounds of the model *)

MaxLen == 4          \* longest list of messages given to the Windower
MaxTextWords == 2    \* most words in one generated text_content
MaxBudget == 3       \* largest max_words
MaxOverlap == 2      \* largest overlap_messages
MaxDocLen == 3       \* longest generated list of raw messages to be sorted

-----------------------------------------------------------------------------
(* Python strings as code point sequences *)

\* str.split() separates on whitespace: space, \t, \n, \v, \f, \r
IsSpace(c) == c \in {32, 9, 10, 11, 12, 13}

\* len(s.split()): the number of maximal runs of non-whitespace
WordCount(s) ==
    Cardinality({i \in 1..Len(s) :
                    /\ ~IsSpace(s[i])
                    /\ (i = 1 \/ IsSpace(s[i - 1]))})

\* "a a ... a": n words separated by single spaces (generated input)
RECURSIVE TextOf(_)
TextOf(n) == IF n = 0 THEN <<>>
             ELSE IF n = 1 THEN <<97>>
             ELSE TextOf(n - 1) \o <<32, 97>>

-----------------------------------------------------------------------------
(* Python values of dynamic type: what json.loads returns *)

None == [t |-> "none"]
PBool(b) == [t |-> "bool", v |-> b]
PInt(n) == [t |-> "int", v |-> n]
\* an integer beyond the model checker's 32-bit range, named by its literal:
\* "1e12" is 10**12 and "1e30" is 10**30
PHuge(lit) == [t |-> "huge", v |-> lit]
PStr(s) == [t |-> "str", v |-> s]
PList(l) == [t |-> "list", v |-> l]
\* a dict is a function from its keys (key strings) to values
PDict(d) == [t |-> "dict", v |-> d]
EmptyDict == <<>>

\* bool(v)
Truthy(x) ==
    CASE x.t = "none" -> FALSE
      [] x.t = "bool" -> x.v
      [] x.t = "int"  -> x.v # 0
      [] x.t = "huge" -> TRUE
      [] x.t = "str"  -> x.v # <<>>
      [] x.t = "list" -> x.v # <<>>
      [] x.t = "dict" -> DOMAIN x.v # {}

\* a or b
Or(a, b) == IF Truthy(a) THEN a ELSE b

\* d.get(k, dflt) and d.get(k), d a dict value
GetOr(d, k, dflt) == IF k \in DOMAIN d.v THEN d.v[k] ELSE dflt
Get(d, k) == GetOr(d, k, None)
Has(d, k) == k \in DOMAIN d.v

IsDict(x) == x.t = "dict"
IsList(x) == x.t = "list"
IsStr(x) == x.t = "str"
\* isinstance(x, (int, float)): bool is a subclass of int
IsNumber(x) == x.t \in {"int", "bool", "huge"}

\* the lists of ss, one after the other
RECURSIVE Concat(_)
Concat(ss) == IF ss = <<>> THEN <<>> ELSE Head(ss) \o Concat(Tail(ss))

\* the result of an expression that may raise: exc is "" or the exception
Ok(val) == [exc |-> "", val |-> val]
Raise(e) == [exc |-> e, val |-> None]

IsDigit(c) == c >= 48 /\ c <= 57

RECURSIVE DigitsOf(_)
DigitsOf(n) == IF n < 10 THEN <<48 + n>>
               ELSE Append(DigitsOf(n \div 10), 48 + (n % 10))

\* str(n) for an int
IntToStr(n) == IF n < 0 THEN <<45>> \o DigitsOf(-n) ELSE DigitsOf(n)

RECURSIVE Power10Digits(_)
Power10Digits(k) == IF k = 0 THEN <<49>> ELSE Append(Power10Digits(k - 1), 48)

\* str(x), for the scalar types (the generated documents put no list or
\* dict where the code stringifies)
PyStr(x) ==
    CASE x.t = "none" -> <<78, 111, 110, 101>>                       \* None
      [] x.t = "bool" -> IF x.v THEN <<84, 114, 117, 101>>           \* True
                         ELSE <<70, 97, 108, 115, 101>>              \* False
      [] x.t = "int"  -> IntToStr(x.v)
      [] x.t = "huge" -> IF x.v = "1e12" THEN Power10Digits(12)
                         ELSE Power10Digits(30)
      [] x.t = "str"  -> x.v

RECURSIVE StripLeft(_)
StripLeft(s) == IF s # <<>> /\ IsSpace(Head(s)) THEN StripLeft(Tail(s)) ELSE s

RECURSIVE StripRight(_)
StripRight(s) ==
    IF s # <<>> /\ IsSpace(s[Len(s)])
    THEN StripRight(SubSeq(s, 1, Len(s) - 1)) ELSE s

RECURSIVE DigitsValue(_)
DigitsValue(ds) ==
    IF ds = <<>> THEN 0
    ELSE 10 * DigitsValue(SubSeq(ds, 1, Len(ds) - 1)) + (ds[Len(ds)] - 48)

\* int(s) for a str: surrounding whitespace, an optional sign, decimal
\* digits; anything else is a ValueError
StrToInt(s) ==
    LET b    == StripRight(StripLeft(s))
        sign == b # <<>> /\ Head(b) \in {43, 45}
        ds   == IF sign THEN Tail(b) ELSE b
    IN  IF ds # <<>> /\ \A i \in 1..Len(ds) : IsDigit(ds[i])
        THEN Ok(IF sign /\ Head(b) = 45 THEN -DigitsValue(ds)
                ELSE DigitsValue(ds))
        ELSE Raise("ValueError")

\* int(x)
PyInt(x) ==
    CASE x.t = "int"  -> Ok(x.v)
      [] x.t = "bool" -> Ok(IF x.v THEN 1 ELSE 0)
      [] x.t = "str"  -> StrToInt(x.v)
      [] x.t \in {"none", "list", "dict"} -> Raise("TypeError")

\* (a < b) on str: code point by code point, a proper prefix is smaller
RECURSIVE StrLess(_, _)
StrLess(a, b) ==
    IF b = <<>> THEN FALSE
    ELSE IF a = <<>> THEN TRUE
    ELSE IF Head(a) # Head(b) THEN Head(a) < Head(b)
    ELSE StrLess(Tail(a), Tail(b))

\* n as w decimal digits, zero padded (%02d, %04d)
RECURSIVE Pad(_, _)
Pad(n, w) == IF w = 0 THEN <<>> ELSE Append(Pad(n \div 10, w - 1), 48 + (n % 10))

\* datetime.fromtimestamp(n).strftime("%Y-%m-%d %H:%M:%S"), the local zone
\* being tz seconds east of UTC
FormatEpoch(n, tz) ==
    LET loc  == n + tz
        days == loc \div 86400
        secs == loc % 86400
        z    == days + 719468
        era  == z \div 146097
        doe  == z % 146097
        yoe  == (doe - doe \div 1460 + doe \div 36524 - doe \div 146096) \div 365
        doy  == doe - (365 * yoe + yoe \div 4 - yoe \div 100)
        mp   == (5 * doy + 2) \div 153
        d    == doy - (153 * mp + 2) \div 5 + 1
        m    == IF mp < 10 THEN mp + 3 ELSE mp - 9
        y    == yoe + era * 400 + (IF m <= 2 THEN 1 ELSE 0)
    IN  Pad(y, 4) \o <<45>> \o Pad(m, 2) \o <<45>> \o Pad(d, 2) \o <<32>>
        \o Pad(secs \div 3600, 2) \o <<58>> \o Pad((secs % 3600) \div 60, 2)
        \o <<58>> \o Pad(secs % 60, 2)

\* datetime.fromtimestamp(x): the formatted time, or what it raises.
\* 10**12 is a year past 9999 (ValueError); 10**30 does not fit time_t
\* (OverflowError).
FromTimestamp(x, tz) ==
    CASE x.t = "int"  -> Ok(FormatEpoch(x.v, tz))
      [] x.t = "bool" -> Ok(FormatEpoch(IF x.v THEN 1 ELSE 0, tz))
      [] x.t = "huge" -> IF x.v = "1e12" THEN Raise("ValueError")
                         ELSE Raise("OverflowError")

-----------------------------------------------------------------------------
(* TelegramMessage (processor.py:13-33) *)

\* the dataclass: its seven fields, in the order of its constructor
TelegramMessage(message_id, text_content, timestamp, sender_id, sender_name, reply_to_id, reactions_count) ==
    [message_id      |-> message_id,
     text_content    |-> text_content,
     timestamp       |-> timestamp,
     sender_id       |-> sender_id,
     sender_name     |-> sender_name,
     reply_to_id     |-> reply_to_id,
     reactions_count |-> reactions_count]

MediaPlaceholderLatin == <<40, 109, 101, 100, 105, 97, 41>>        \* "(media)"

\* line 92: the literal "(медиа)", Cyrillic
MediaPlaceholder == <<40, 1084, 1077, 1076, 1080, 1072, 41>>

UnknownSender == <<63>>                                            \* "?"

-----------------------------------------------------------------------------
(* _extract_text (processor.py:36-45) *)

\* lines 41-44: "".join(p.get("text", p) if isinstance(p, dict) else str(p)),
\* a TypeError when a piece is no str
RECURSIVE JoinParts(_)
JoinParts(parts) ==
    IF parts = <<>> THEN Ok(<<>>)
    ELSE LET p     == Head(parts)
             piece == IF IsDict(p) THEN GetOr(p, "text", p) ELSE PStr(PyStr(p))
             rest  == JoinParts(Tail(parts))
         IN  IF ~IsStr(piece) THEN Raise("TypeError")
             ELSE IF rest.exc # "" THEN rest
             ELSE Ok(piece.v \o rest.val)

ExtractText(obj) ==
    IF IsStr(obj) THEN Ok(obj.v)
    ELSE IF IsList(obj) THEN JoinParts(obj.v)
    ELSE Ok(<<>>)

-----------------------------------------------------------------------------
(* _parse_message (processor.py:48-98) *)

\* lines 54-56
MsgIdOf(rw) ==
    LET msg_id == Or(Or(Get(rw, "id"), Get(rw, "message_id")), PInt(0))
    IN  IF IsDict(msg_id) THEN Or(GetOr(msg_id, "id", PInt(0)), PInt(0))
        ELSE msg_id

\* lines 58-65
TimestampOf(rw, tz) ==
    LET date_val == Or(Get(rw, "date"), Get(rw, "timestamp"))
    IN  IF IsNumber(date_val)
        THEN LET f == FromTimestamp(date_val, tz)
             IN  IF f.exc \in {"OSError", "ValueError"}
                 THEN Ok(PyStr(date_val))
                 ELSE f
        ELSE Ok(PyStr(Or(date_val, PStr(<<>>))))

\* lines 67-71
FromIdOf(rw) ==
    LET from_val == Or(Or(Get(rw, "from_id"), Get(rw, "from")),
                       Get(rw, "sender_id"))
    IN  IF IsDict(from_val)
        THEN Or(Or(Get(from_val, "user_id"), Get(from_val, "id")), PStr(<<>>))
        ELSE Or(from_val, PStr(<<>>))

\* lines 73-75
FromNameOf(rw) ==
    LET from_name == Or(Or(Or(Get(rw, "from_name"), Get(rw, "sender")),
                           Get(rw, "forward_sender_name")), PStr(<<>>))
    IN  IF ~Truthy(from_name) /\ IsStr(Get(rw, "from"))
        THEN Get(rw, "from") ELSE from_name

\* lines 77-79
ReplyToOf(rw) ==
    LET reply_to == Or(Or(Get(rw, "reply_to_message_id"),
                          Get(rw, "reply_to")), Get(rw, "reply_to_id"))
    IN  IF IsDict(reply_to)
        THEN Or(Get(reply_to, "message_id"), Get(reply_to, "id"))
        ELSE reply_to

\* lines 83-86: sum(r.get("count", 1) if isinstance(r, dict) else 1 ...);
\* adding anything but a number to the running int is a TypeError
RECURSIVE SumReactions(_)
SumReactions(rs) ==
    IF rs = <<>> THEN Ok(0)
    ELSE LET r    == rs[Len(rs)]
             item == IF IsDict(r) THEN GetOr(r, "count", PInt(1)) ELSE PInt(1)
             init == SumReactions(SubSeq(rs, 1, Len(rs) - 1))
         IN  IF init.exc # "" THEN init
             ELSE IF item.t \notin {"int", "bool"} THEN Raise("TypeError")
             ELSE Ok(init.val + PyInt(item).val)

\* lines 81-88
ReactionsCount(rw) ==
    LET reactions == Or(Or(Get(rw, "reactions"), Get(rw, "reactions_count")),
                        PList(<<>>))
    IN  IF IsList(reactions) THEN SumReactions(reactions.v)
        ELSE IF Truthy(reactions) THEN PyInt(reactions) ELSE Ok(0)

\* line 92: text or "(медиа)"
TextContentLatin(text) == IF text # <<>> THEN text ELSE MediaPlaceholderLatin

TextContent(text) == IF text # <<>> THEN text ELSE MediaPlaceholder

\* line 51: not text and not raw.get("photo")
SkipMessage(text, rw) == text = <<>> /\ ~Truthy(Get(rw, "photo"))

\* the whole function: Ok(None), Ok(a TelegramMessage) or the exception the
\* first failing statement raises
ParseMessage(rw, tz) ==
    LET text_r == ExtractText(GetOr(rw, "text", PStr(<<>>)))
    IN  IF text_r.exc # "" THEN Raise(text_r.exc)
        ELSE IF SkipMessage(text_r.val, rw) THEN Ok(None)
        ELSE
    LET msg_id    == MsgIdOf(rw)
        ts_r      == TimestampOf(rw, tz)
        from_id   == FromIdOf(rw)
        from_name == FromNameOf(rw)
        reply_to  == ReplyToOf(rw)
        reac_r    == ReactionsCount(rw)
        id_r      == IF Truthy(msg_id) THEN PyInt(msg_id) ELSE Ok(0)
        reply_r   == IF reply_to # None THEN PyInt(reply_to) ELSE Ok(None)
    IN  IF ts_r.exc # "" THEN Raise(ts_r.exc)
        ELSE IF reac_r.exc # "" THEN Raise(reac_r.exc)
        ELSE IF id_r.exc # "" THEN Raise(id_r.exc)
        ELSE IF reply_r.exc # "" THEN Raise(reply_r.exc)
        ELSE Ok(TelegramMessage(
                 id_r.val,
                 TextContent(text_r.val),
                 ts_r.val,
                 from_id,
                 Or(Or(from_name, PStr(PyStr(from_id))), PStr(UnknownSender)),
                 IF reply_to # None THEN PInt(reply_r.val) ELSE None,
                 reac_r.val))

-----------------------------------------------------------------------------
(* _iter_messages_from_chat (processor.py:101-110) *)

\* lines 103-107: the value the for loop of line 108 iterates
ChatMessages(chat) ==
    LET messages0 == Or(Or(Get(chat, "messages"), Get(chat, "messages_list")),
                        PList(<<>>))
    IN  IF ~Truthy(messages0) /\ ~Has(chat, "messages") /\ Has(chat, "message")
        THEN PList(<<chat.v["message"]>>)
        ELSE messages0

\* line 108: what iterating the value yields: the elements of a list, the
\* characters of a str, the keys of a dict (neither of them a dict), and a
\* TypeError for a number
IterItems(x) ==
    CASE x.t = "list" -> Ok(x.v)
      [] x.t \in {"str", "dict"} -> Ok(<<>>)
      [] x.t \in {"int", "bool", "huge", "none"} -> Raise("TypeError")

-----------------------------------------------------------------------------
(* parse_telegram_json (processor.py:113-142) *)

\* lines 119-132: the chats to read, or "return" for the early return
ChatsRaw(doc) ==
    IF Has(doc, "chats")
    THEN LET cl == doc.v["chats"]
         IN  IF IsDict(cl) /\ Has(cl, "list") THEN [ret |-> FALSE, chats |-> cl.v["list"]]
             ELSE IF IsList(cl) THEN [ret |-> FALSE, chats |-> cl]
             ELSE [ret |-> FALSE, chats |-> PList(<<>>)]
    ELSE IF Has(doc, "messages")
    THEN [ret |-> FALSE,
          chats |-> PList(<<PDict([name |-> GetOr(doc, "name", PStr(<<67, 104, 97, 116>>)),
                                   messages |-> doc.v["messages"]])>>)]
    ELSE IF Has(doc, "name") /\ (Has(doc, "messages") \/ Has(doc, "messages_list"))
    THEN [ret |-> FALSE, chats |-> PList(<<doc>>)]
    ELSE [ret |-> TRUE, chats |-> PList(<<>>)]

\* line 141: the key of the sort, compared as Python compares tuples
KeyLessTimestampOnly(a, b) == StrLess(a.timestamp, b.timestamp)

KeyLess(a, b) ==
    \/ StrLess(a.timestamp, b.timestamp)
    \/ a.timestamp = b.timestamp /\ a.message_id < b.message_id

\* list.sort is stable: an element goes before the first one greater than it
RECURSIVE InsertSorted(_, _, _)
InsertSorted(heap, sorted, ref) ==
    IF sorted = <<>> THEN <<ref>>
    ELSE IF KeyLess(heap[ref], heap[Head(sorted)]) THEN <<ref>> \o sorted
    ELSE <<Head(sorted)>> \o InsertSorted(heap, Tail(sorted), ref)

RECURSIVE SortRefs(_, _)
SortRefs(heap, refs) ==
    IF refs = <<>> THEN <<>>
    ELSE InsertSorted(heap, SortRefs(heap, SubSeq(refs, 1, Len(refs) - 1)),
                      refs[Len(refs)])

-----------------------------------------------------------------------------
(* word counts, as the Windower takes them *)

Words(msgs, ref) == WordCount(msgs[ref].text_content)

RECURSIVE SumWords(_, _)
SumWords(msgs, refs) ==
    IF refs = <<>> THEN 0
    ELSE Words(msgs, Head(refs)) + SumWords(msgs, Tail(refs))

-----------------------------------------------------------------------------
(* split_by_context_blocks *)

\* lst[-n:] for n >= 1: the last n elements, the whole list when it is shorter
LastN(lst, n) ==
    IF n >= Len(lst) THEN lst ELSE SubSeq(lst, Len(lst) - n + 1, Len(lst))

\* lst[:n]
FirstN(lst, n) ==
    IF n >= Len(lst) THEN lst ELSE SubSeq(lst, 1, n)

OverlapBufNoGuard(cur, ov) ==
    IF ov = 0 THEN cur ELSE LastN(cur, ov)      \* cur[-0:] is the whole list

OverlapBufHead(cur, ov) == FirstN(cur, ov)

\* line 176: current[-overlap_messages:] if overlap_messages else []
OverlapBuf(cur, ov) ==
    IF ov # 0 THEN LastN(cur, ov) ELSE <<>>

\* line 172: current_words + words > max_words and current
NeedNewChunk(cw, words, mw, cur) ==
    cw + words > mw /\ cur # <<>>

\* the loop with a `continue` after the reseed: the record that closed the
\* block is not appended
LoopBodySkipOnClose(st, msgs, ref, mw, ov) ==
    LET words == Words(msgs, ref)
    IN  IF NeedNewChunk(st.current_words, words, mw, st.current)
        THEN LET buf == OverlapBuf(st.current, ov)
             IN  [chunks        |-> Append(st.chunks, st.current),
                  overlap_buf   |-> buf,
                  current       |-> buf,
                  current_words |-> SumWords(msgs, buf)]
        ELSE [st EXCEPT !.current = Append(st.current, ref),
                        !.current_words = st.current_words + words]

\* lines 170-181: one iteration of the for loop, on the loop's state
LoopBody(st, msgs, ref, mw, ov) ==
    LET words == Words(msgs, ref)
        need  == NeedNewChunk(st.current_words, words, mw, st.current)
        st1   == IF need /\ st.current # <<>>
                 THEN LET buf == OverlapBuf(st.current, ov)
                      IN  [chunks        |-> Append(st.chunks, st.current),
                           overlap_buf   |-> buf,
                           current       |-> buf,
                           current_words |-> SumWords(msgs, buf)]
                 ELSE st
    IN  [st1 EXCEPT !.current = Append(st1.current, ref),
                    !.current_words = st1.current_words + words]

FinalChunksDropLast(chs, cur) == chs

\* lines 183-186
FinalChunks(chs, cur) ==
    IF cur # <<>> THEN Append(chs, cur) ELSE chs

\* lines 165-168
LoopInit == [chunks |-> <<>>, current |-> <<>>, current_words |-> 0,
             overlap_buf |-> <<>>]

WinState == [chunks |-> chunks, current |-> current,
             current_words |-> current_words, overlap_buf |-> overlap_buf]

\* a generated record: sorted as the Normalizer leaves them (same timestamp,
\* ascending message_id)
GenMessage(i, nwords) ==
    TelegramMessage(i, TextOf(nwords), <<>>, PStr(<<>>), PStr(UnknownSender),
                    None, 0)

GenMessageLists ==
    UNION {[1..n -> 0..MaxTextWords] : n \in 0..MaxLen}

\* lines 162-163: if not messages: return []
WinEmpty ==
    /\ wpc = "entry" /\ messages = <<>>
    /\ chunks' = <<>>
    /\ wpc' = "done"
    /\ UNCHANGED <<messages, max_words, overlap_messages, current,
                   current_words, overlap_buf, idx>>
    /\ UNCHANGED <<normVars, procVars>>

\* lines 165-168
WinEnter ==
    /\ wpc = "entry" /\ messages # <<>>
    /\ chunks' = LoopInit.chunks
    /\ current' = LoopInit.current
    /\ current_words' = LoopInit.current_words
    /\ overlap_buf' = LoopInit.overlap_buf
    /\ idx' = 1
    /\ wpc' = "loop"
    /\ UNCHANGED <<messages, max_words, overlap_messages>>
    /\ UNCHANGED <<normVars, procVars>>

\* lines 170-181
WinLoop ==
    /\ wpc = "loop" /\ idx <= Len(messages)
    /\ LET st == LoopBody(WinState, messages, idx, max_words, overlap_messages)
       IN  /\ chunks' = st.chunks
           /\ current' = st.current
           /\ current_words' = st.current_words
           /\ overlap_buf' = st.overlap_buf
    /\ idx' = idx + 1
    /\ wpc' = IF idx = Len(messages) THEN "flush" ELSE "loop"
    /\ UNCHANGED <<messages, max_words, overlap_messages>>
    /\ UNCHANGED <<normVars, procVars>>

\* lines 183-186
WinReturn ==
    /\ wpc = "flush"
    /\ chunks' = FinalChunks(chunks, current)
    /\ wpc' = "done"
    /\ UNCHANGED <<messages, max_words, overlap_messages, current,
                   current_words, overlap_buf, idx>>
    /\ UNCHANGED <<normVars, procVars>>

WinNext == WinEmpty \/ WinEnter \/ WinLoop \/ WinReturn


-----------------------------------------------------------------------------
(* Generated documents *)

Absent == [t |-> "absent"]

\* the dict d with d[k] = x, or without the key k when x is Absent
With(d, k, x) ==
    IF x = Absent
    THEN PDict([kk \in DOMAIN d.v \ {k} |-> d.v[kk]])
    ELSE PDict([kk \in DOMAIN d.v \cup {k} |-> IF kk = k THEN x ELSE d.v[kk]])

Str_hi == <<104, 105>>
Str_a == <<97>>
Str_b == <<98>>
Str_9 == <<57>>
Str_10 == <<49, 48>>
Str_12 == <<49, 50>>
Str_abc == <<97, 98, 99>>
Str_minus3 == <<45, 51>>
Str_iso == <<50, 48, 50, 52, 45, 48, 49, 45, 48, 50, 84, 48, 51, 58, 48, 52>>

BaseRaw == PDict([id |-> PInt(1), text |-> PStr(Str_hi), date |-> PStr(Str_9)])

TextValues ==
    {Absent, None, PStr(<<>>), PStr(<<32>>), PStr(Str_hi), PInt(5),
     PList(<<>>),
     PList(<<PStr(Str_a), PDict([type |-> PStr(Str_b), text |-> PStr(Str_b)])>>),
     PList(<<PDict([type |-> PStr(Str_b)])>>),
     PList(<<PInt(7)>>),
     PDict([text |-> PStr(Str_a)])}

PhotoValues == {Absent, None, PStr(<<>>), PStr(Str_a)}

IdValues ==
    {Absent, PInt(0), PInt(7), PStr(Str_12), PStr(<<32, 55, 32>>),
     PStr(Str_minus3), PStr(Str_abc), PBool(TRUE), PList(<<PInt(1)>>),
     PDict([id |-> PInt(4)]), PDict([id |-> PStr(Str_abc)]), PDict(EmptyDict)}

DateValues ==
    {Absent, None, PInt(0), PInt(1700000000), PInt(-1), PBool(TRUE),
     PHuge("1e12"), PHuge("1e30"), PStr(Str_iso), PStr(<<>>)}

ReplyValues ==
    {Absent, None, PInt(0), PInt(5), PStr(Str_12), PStr(Str_abc), PStr(<<>>),
     PDict([message_id |-> PInt(9)]), PDict([id |-> PInt(2)]),
     PDict([id |-> PStr(Str_abc)]), PList(<<PInt(1)>>)}

ReactionValues ==
    {Absent, None, PInt(5), PInt(-2), PStr(Str_12), PStr(Str_abc),
     PDict([count |-> PInt(1)]),
     PList(<<PDict([count |-> PInt(3)]), PDict([emoji |-> PStr(Str_a)])>>),
     PList(<<PStr(Str_a), PInt(2)>>),
     PList(<<PDict([count |-> PInt(2)]), PDict([count |-> PInt(-3)])>>),
     PList(<<PDict([count |-> PStr(Str_a)])>>),
     PList(<<PDict([count |-> None])>>),
     PList(<<PDict([count |-> PBool(TRUE)])>>)}

SenderValues ==
    {Absent, PStr(Str_a), PInt(7), PDict([user_id |-> PInt(3)]),
     PDict([id |-> PStr(Str_b)]), PDict(EmptyDict)}

\* raw messages that differ from BaseRaw in one field (text together with
\* photo, and each field under each of the keys the code reads it from)
VariantRaws ==
    {With(With(BaseRaw, "text", t), "photo", ph) :
         t \in TextValues, ph \in PhotoValues}
    \cup {With(With(BaseRaw, "id", Absent), k, x) :
         k \in {"id", "message_id"}, x \in IdValues}
    \cup {With(With(BaseRaw, "date", Absent), k, x) :
         k \in {"date", "timestamp"}, x \in DateValues}
    \cup {With(BaseRaw, k, x) :
         k \in {"reply_to_message_id", "reply_to", "reply_to_id"},
         x \in ReplyValues}
    \cup {With(BaseRaw, k, x) :
         k \in {"reactions", "reactions_count"}, x \in ReactionValues}
    \cup {With(BaseRaw, k, x) :
         k \in {"from_id", "from", "sender_id", "from_name", "sender",
                "forward_sender_name"},
         x \in SenderValues}

\* raw messages whose order the sort decides: timestamps that compare
\* differently as strings and as numbers, an epoch, message ids that tie
SortRaws ==
    {PDict([id |-> PInt(i), text |-> PStr(Str_a), date |-> d]) :
         i \in {1, 2}, d \in {PStr(Str_9), PStr(Str_10)}}
    \cup {PDict([id |-> PInt(1), text |-> PStr(Str_b), date |-> PInt(86400)]),
          PDict([id |-> PInt(1), photo |-> PStr(Str_a), date |-> PStr(Str_9)])}

SortLists == UNION {[1..n -> SortRaws] : n \in 0..MaxDocLen}

\* a message list with entries that are no dict around the message
VariantLists ==
    {<<v>> : v \in VariantRaws}
    \cup {<<PInt(1), v, PStr(Str_a), None>> : v \in VariantRaws}

Str_name == <<99, 104, 97, 116>>

\* the shapes of document the code tells apart, around a list of messages
DocsOf(list) ==
    {PDict([name |-> PStr(Str_name), messages |-> PList(list)]),
     PDict([name |-> PStr(Str_name), messages_list |-> PList(list)]),
     PDict([chats |-> PList(<<PDict([title |-> PStr(Str_name),
                                     messages |-> PList(list)])>>)])}
    \cup {PDict([chats |-> PDict([list |->
              PList(<<PDict([name |-> PStr(Str_name),
                             messages |-> PList(SubSeq(list, 1, k))]),
                      PDict([messages_list |-> PList(SubSeq(list, k + 1, Len(list)))])>>)])]) :
              k \in 0..Len(list)}

\* documents whose chat or message list is not what the code expects
OddDocs ==
    {PDict([foo |-> PInt(1)]),
     PDict([messages_list |-> PList(<<BaseRaw>>)]),
     PDict([chats |-> PInt(3)]),
     PDict([chats |-> PDict([list |-> PList(<<>>)])]),
     PDict([chats |-> PDict([list |-> PInt(3)])]),
     PDict([chats |-> PList(<<PStr(Str_a)>>)]),
     PDict([chats |-> PList(<<PDict([message |-> BaseRaw])>>)]),
     PDict([chats |-> PList(<<PDict([messages |-> PList(<<>>), message |-> BaseRaw])>>)]),
     PDict([chats |-> PList(<<PDict([messages |-> PInt(3)])>>)]),
     PDict([chats |-> PList(<<PDict([messages |-> PStr(Str_a)])>>)]),
     PDict([chats |-> PList(<<PDict([messages |-> PDict([a |-> BaseRaw])])>>)])}

Docs ==
    UNION {DocsOf(l) : l \in SortLists}
    \cup {PDict([messages |-> PList(l)]) : l \in VariantLists}
    \cup OddDocs

TzOffsets == {0, 10800}

-----------------------------------------------------------------------------
(* parse_telegram_json, step by step *)

\* line 134: for chat in chats_raw: the elements of a list, a TypeError for
\* a number (the generated documents put only these under "chats")
ChatItems(x) ==
    CASE x.t = "list" -> Ok(x.v)
      [] x.t \in {"int", "bool", "huge", "none"} -> Raise("TypeError")

\* lines 118-132, and the start of the loop of line 134
NormDetect ==
    /\ npc = "entry"
    /\ LET r  == ChatsRaw(data)
           it == ChatItems(r.chats)
       IN  IF r.ret
           THEN /\ npc' = "returned"
                /\ UNCHANGED <<chats_raw, nexc>>
           ELSE IF it.exc # ""
           THEN /\ npc' = "raised" /\ nexc' = it.exc
                /\ UNCHANGED chats_raw
           ELSE /\ chats_raw' = it.val
                /\ npc' = "chat"
                /\ UNCHANGED nexc
    /\ UNCHANGED <<data, tzoff, ci, chat_messages, mi, raw, msg, objs, out>>
    /\ UNCHANGED <<winVars, procVars>>

\* line 135 and lines 103-108: the next chat and the list of its messages;
\* chat.get of something that is no dict is an AttributeError
NormChat ==
    /\ npc = "chat" /\ ci < Len(chats_raw)
    /\ LET chat == chats_raw[ci + 1]
           it   == IterItems(ChatMessages(chat))
       IN  IF ~IsDict(chat)
           THEN /\ npc' = "raised" /\ nexc' = "AttributeError"
                /\ UNCHANGED <<chat_messages, mi>>
           ELSE IF it.exc # ""
           THEN /\ npc' = "raised" /\ nexc' = it.exc
                /\ UNCHANGED <<chat_messages, mi>>
           ELSE /\ chat_messages' = it.val
                /\ mi' = 0
                /\ npc' = IF it.val = <<>> THEN "chat" ELSE "msg"
                /\ UNCHANGED nexc
    /\ ci' = ci + 1
    /\ UNCHANGED <<data, tzoff, chats_raw, raw, msg, objs, out>>
    /\ UNCHANGED <<winVars, procVars>>

\* lines 108-110 and 136-139: the next entry of the chat's messages
NormMessage ==
    /\ npc = "msg" /\ mi < Len(chat_messages)
    /\ LET m == chat_messages[mi + 1]
           r == ParseMessage(m, tzoff)
           next == IF mi + 1 = Len(chat_messages) THEN "chat" ELSE "msg"
       IN  IF ~IsDict(m)
           THEN /\ npc' = next
                /\ UNCHANGED <<raw, msg, objs, out, nexc>>
           ELSE IF r.exc # ""
           THEN /\ raw' = m
                /\ npc' = "raised" /\ nexc' = r.exc
                /\ UNCHANGED <<msg, objs, out>>
           ELSE /\ raw' = m
                /\ msg' = r.val
                /\ IF r.val # None
                   THEN /\ objs' = Append(objs, r.val)
                        /\ out' = Append(out, Len(objs) + 1)
                   ELSE UNCHANGED <<objs, out>>
                /\ npc' = next
                /\ UNCHANGED nexc
    /\ mi' = mi + 1
    /\ UNCHANGED <<data, tzoff, chats_raw, ci, chat_messages>>
    /\ UNCHANGED <<winVars, procVars>>

\* lines 141-142: out.sort(key=...); return out
NormSort ==
    /\ npc = "chat" /\ ci = Len(chats_raw)
    /\ out' = SortRefs(objs, out)
    /\ npc' = "returned"
    /\ UNCHANGED <<data, tzoff, chats_raw, ci, chat_messages, mi, raw, msg,
                   objs, nexc>>
    /\ UNCHANGED <<winVars, procVars>>

NormNext == NormDetect \/ NormChat \/ NormMessage \/ NormSort


-----------------------------------------------------------------------------
(* The two core functions as functions, as the /process handler calls them *)

\* the values of the results rs, in order, or the first exception among them
FirstRaise(rs) ==
    LET bad == {i \in DOMAIN rs : rs[i].exc # ""}
    IN  IF bad # {}
        THEN Raise(rs[CHOOSE i \in bad : \A j \in bad : i <= j].exc)
        ELSE Ok([i \in DOMAIN rs |-> rs[i].val])

\* line 138: if msg: the records among what _parse_message returned
KeepRecords(rs) ==
    IF rs.exc # "" THEN rs ELSE Ok(SelectSeq(rs.val, LAMBDA m : m # None))

\* lines 108-110 and 136-139 over the entries of one chat: the records
\* appended to out
ParseEntries(entries, tz) ==
    KeepRecords(FirstRaise([i \in DOMAIN entries |->
                               IF IsDict(entries[i])
                               THEN ParseMessage(entries[i], tz)
                               ELSE Ok(None)]))

\* line 108, it being what iterating the chat's messages gives
ParseItems(it, tz) ==
    IF it.exc # "" THEN Raise(it.exc) ELSE ParseEntries(it.val, tz)

\* lines 134-139 for one chat
ParseChat(chat, tz) ==
    IF ~IsDict(chat) THEN Raise("AttributeError")
    ELSE ParseItems(IterItems(ChatMessages(chat)), tz)

\* the objects of heap in the order of the references perm
Deref(heap, perm) == [i \in 1..Len(perm) |-> heap[perm[i]]]

\* lines 141-142 on the records heap, in the order they were appended
SortedList(heap) == Deref(heap, SortRefs(heap, [i \in 1..Len(heap) |-> i]))

\* lines 139-142, ps being the records of each chat
SortedRecords(ps) ==
    IF ps.exc # "" THEN ps ELSE Ok(SortedList(Concat(ps.val)))

\* lines 134-142, it being what iterating chats_raw gives
ParseChatList(it, tz) ==
    IF it.exc # "" THEN Raise(it.exc)
    ELSE SortedRecords(FirstRaise([i \in DOMAIN it.val |->
                                      ParseChat(it.val[i], tz)]))

\* lines 121-142, r being the outcome of the shape detection
ParseDetected(r, tz) ==
    IF r.ret THEN Ok(<<>>) ELSE ParseChatList(ChatItems(r.chats), tz)

\* parse_telegram_json(doc): the sorted list of records, or the exception
ParseTelegramJson(doc, tz) == ParseDetected(ChatsRaw(doc), tz)

RECURSIVE LoopFrom(_, _, _, _, _)
LoopFrom(st, msgs, i, mw, ov) ==
    IF i > Len(msgs) THEN st
    ELSE LoopFrom(LoopBody(st, msgs, i, mw, ov), msgs, i + 1, mw, ov)

\* split_by_context_blocks(msgs, mw, ov): blocks of references into msgs
SplitByContextBlocks(msgs, mw, ov) ==
    IF msgs = <<>> THEN <<>>
    ELSE LET st == LoopFrom(LoopInit, msgs, 1, mw, ov)
         IN  FinalChunks(st.chunks, st.current)

-----------------------------------------------------------------------------
(* exporters.py *)

\* ExportOptions.from_flags (lines 31-47)
FromFlags(timestamps, sender_info, reactions, reply_ids, views, reaction_breakdown) ==
    [include_timestamp          |-> timestamps,
     include_sender             |-> sender_info,
     include_reactions          |-> reactions,
     include_reply_id           |-> reply_ids,
     include_views              |-> views,
     include_reaction_breakdown |-> reaction_breakdown]

\* msg.<attr>: an AttributeError when the object has no such attribute
GetAttr(m, attr) ==
    IF attr \in DOMAIN m THEN Ok(m[attr]) ELSE Raise("AttributeError")

\* _row (lines 50-65): the statements in order, each with the flag that
\* guards it ("" for none) and the attributes it copies into d
RowStatements ==
    <<[flag |-> "", attrs |-> <<"message_id", "text_content">>],
      [flag |-> "include_timestamp", attrs |-> <<"timestamp">>],
      [flag |-> "include_sender", attrs |-> <<"sender_id", "sender_name">>],
      [flag |-> "include_reply_id", attrs |-> <<"reply_to_id">>],
      [flag |-> "include_reactions", attrs |-> <<"reactions_count">>],
      [flag |-> "include_views", attrs |-> <<"views">>],
      [flag |-> "include_reaction_breakdown", attrs |-> <<"reactions_breakdown">>]>>

RECURSIVE CopyAttrs(_, _, _)
CopyAttrs(m, attrs, d) ==
    IF attrs = <<>> THEN Ok(d)
    ELSE LET a == GetAttr(m, Head(attrs))
         IN  IF a.exc # "" THEN Raise(a.exc)
             ELSE CopyAttrs(m, Tail(attrs),
                            Append(d, [k |-> Head(attrs), v |-> a.val]))

RECURSIVE RowFrom(_, _, _, _)
RowFrom(m, o, stmts, d) ==
    IF stmts = <<>> THEN Ok(d)
    ELSE LET st == Head(stmts)
             r  == CopyAttrs(m, st.attrs, d)
         IN  IF st.flag # "" /\ ~o[st.flag] THEN RowFrom(m, o, Tail(stmts), d)
             ELSE IF r.exc # "" THEN r
             ELSE RowFrom(m, o, Tail(stmts), r.val)

\* _row(msg, opts): the dict d as the list of its items, in insertion order
Row(m, o) == RowFrom(m, o, RowStatements, <<>>)

SelectSeqKeyNot(d, key) == SelectSeq(d, LAMBDA it : it.k # key)

\* _row_flat (lines 68-72): reactions_breakdown leaves d and its JSON text
\* enters it as reactions_json
RowFlat(m, o) ==
    LET r == Row(m, o)
    IN  IF r.exc # "" THEN r
        ELSE IF \E i \in 1..Len(r.val) : r.val[i].k = "reactions_breakdown"
        THEN LET i == CHOOSE j \in 1..Len(r.val) : r.val[j].k = "reactions_breakdown"
             IN  Ok(Append(SelectSeqKeyNot(r.val, "reactions_breakdown"),
                           [k |-> "reactions_json",
                            v |-> [t |-> "json", v |-> r.val[i].v]]))
        ELSE r

RECURSIVE MapRows(_, _, _, _)
\* the rows of the records of a block, or the first exception
MapRows(heap, refs, o, flat) ==
    IF refs = <<>> THEN Ok(<<>>)
    ELSE LET r    == IF flat THEN RowFlat(heap[Head(refs)], o)
                     ELSE Row(heap[Head(refs)], o)
             rest == MapRows(heap, Tail(refs), o, flat)
         IN  IF r.exc # "" THEN r
             ELSE IF rest.exc # "" THEN rest
             ELSE Ok(<<r.val>> \o rest.val)

Keys(d) == [i \in 1..Len(d) |-> d[i].k]

\* export_csv (lines 75-86): the header and the rows written
ExportCsv(heap, refs, o) ==
    IF refs = <<>> THEN Ok(<<>>)
    ELSE LET rows == MapRows(heap, refs, o, TRUE)
         IN  IF rows.exc # "" THEN rows
             ELSE Ok([header |-> Keys(rows.val[1]), rows |-> rows.val])

\* export_jsonl (lines 89-94): one row a line
ExportJsonl(heap, refs, o) == MapRows(heap, refs, o, FALSE)

\* export_txt (lines 100-118) for one record: the parts of its line
TxtParts(m, o) ==
    LET p1 == IF o.include_timestamp /\ m.timestamp # <<>>
              THEN <<[part |-> "timestamp", v |-> m.timestamp]>> ELSE <<>>
        p2 == IF o.include_sender /\ Truthy(m.sender_name)
              THEN <<[part |-> "sender", v |-> <<m.sender_name, m.sender_id>>]>>
              ELSE <<[part |-> "colon", v |-> <<>>]>>
        p3 == <<[part |-> "text", v |-> m.text_content]>>
        p4 == IF o.include_reactions /\ m.reactions_count # 0
              THEN <<[part |-> "reactions", v |-> m.reactions_count]>> ELSE <<>>
        bd == IF o.include_reaction_breakdown
              THEN GetAttr(m, "reactions_breakdown") ELSE Ok(None)
        vw == IF o.include_views THEN GetAttr(m, "views") ELSE Ok(None)
        p5 == IF o.include_reaction_breakdown /\ Truthy(bd.val)
              THEN <<[part |-> "breakdown", v |-> bd.val]>> ELSE <<>>
        p6 == IF o.include_views /\ Truthy(vw.val)
              THEN <<[part |-> "views", v |-> vw.val]>> ELSE <<>>
        p7 == IF o.include_reply_id /\ m.reply_to_id # None
              THEN <<[part |-> "reply_to", v |-> m.reply_to_id]>> ELSE <<>>
    IN  IF bd.exc # "" THEN Raise(bd.exc)
        ELSE IF vw.exc # "" THEN Raise(vw.exc)
        ELSE Ok(p1 \o p2 \o p3 \o p4 \o p5 \o p6 \o p7)

RECURSIVE ExportTxt(_, _, _)
\* export_txt (lines 97-119): one line a record
ExportTxt(heap, refs, o) ==
    IF refs = <<>> THEN Ok(<<>>)
    ELSE LET r    == TxtParts(heap[Head(refs)], o)
             rest == ExportTxt(heap, Tail(refs), o)
         IN  IF r.exc # "" THEN r
             ELSE IF rest.exc # "" THEN rest
             ELSE Ok(<<r.val>> \o rest.val)

\* export_excel (lines 122-148): a RuntimeError without openpyxl, else the
\* sheet's header and rows
ExportExcel(heap, refs, o, installed) ==
    IF ~installed THEN Raise("RuntimeError")
    ELSE IF refs = <<>> THEN Ok(<<>>)
    ELSE LET rows == MapRows(heap, refs, o, TRUE)
         IN  IF rows.exc # "" THEN rows
             ELSE Ok([header |-> Keys(rows.val[1]), rows |-> rows.val])

-----------------------------------------------------------------------------
(* main.py *)

Str_txt == <<116, 120, 116>>
Str_csv == <<99, 115, 118>>
Str_jsonl == <<106, 115, 111, 110, 108>>
Str_excel == <<101, 120, 99, 101, 108>>
Str_dot_json == <<46, 106, 115, 111, 110>>
Str_true == <<116, 114, 117, 101>>
Str_1 == <<49>>
Str_yes == <<121, 101, 115>>
Str_on == <<111, 110>>
Str_part == <<112, 97, 114, 116, 95>>

\* str.lower(), on the ASCII letters
Lower(str) == [i \in 1..Len(str) |->
                  IF str[i] >= 65 /\ str[i] <= 90 THEN str[i] + 32 ELSE str[i]]

\* str.endswith(suffix)
EndsWith(str, suffix) ==
    /\ Len(str) >= Len(suffix)
    /\ SubSeq(str, Len(str) - Len(suffix) + 1, Len(str)) = suffix

\* _form_bool (lines 30-33), of a form string
FormBool(str) == Lower(str) \in {Str_true, Str_1, Str_yes, Str_on}

\* lines 51-53
FormatOf(format) ==
    LET f == IF format # <<>> THEN Lower(format) ELSE Str_txt
    IN  IF f \in {Str_txt, Str_csv, Str_jsonl, Str_excel} THEN f ELSE Str_txt

\* line 76
ExtOf(f) ==
    CASE f = Str_txt   -> <<46>> \o Str_txt
      [] f = Str_csv   -> <<46>> \o Str_csv
      [] f = Str_jsonl -> <<46>> \o Str_jsonl
      [] f = Str_excel -> <<46, 120, 108, 115, 120>>

\* lines 55-60: the four flags of the form; views and reaction_breakdown
\* keep from_flags' defaults, True
ProcessOptions(req) ==
    FromFlags(FormBool(req.include_timestamp), FormBool(req.include_sender),
              FormBool(req.include_reactions), FormBool(req.include_reply_id),
              TRUE, TRUE)

\* line 72: max(0, min(overlap, 20))
ClampOverlap(overlap) ==
    LET m == IF overlap < 20 THEN overlap ELSE 20
    IN  IF m > 0 THEN m ELSE 0

\* lines 79-87: the export of one block in the chosen format
ExportBlock(f, heap, refs, o, installed) ==
    CASE f = Str_txt   -> ExportTxt(heap, refs, o)
      [] f = Str_csv   -> ExportCsv(heap, refs, o)
      [] f = Str_jsonl -> ExportJsonl(heap, refs, o)
      [] f = Str_excel -> ExportExcel(heap, refs, o, installed)

InvalidJson == [t |-> "invalid"]

\* lines 48-60
ProcValidate ==
    /\ ppc = "entry"
    /\ IF request.filename = <<>>
          \/ ~EndsWith(Lower(request.filename), Str_dot_json)
       THEN /\ resp' = 400
            /\ ppc' = "responded"
            /\ UNCHANGED <<fmt, opts>>
       ELSE /\ fmt' = FormatOf(request.format)
            /\ opts' = ProcessOptions(request)
            /\ ppc' = "parse"
            /\ UNCHANGED resp
    /\ UNCHANGED <<request, openpyxl, proc_messages, proc_chunks, bi, zf, pexc>>
    /\ UNCHANGED <<winVars, normVars>>

\* lines 62-70: json.loads and parse_telegram_json; any exception, and an
\* empty list of messages, is answered 400
ProcParse ==
    /\ ppc = "parse"
    /\ LET r == IF request.content = InvalidJson THEN Raise("JSONDecodeError")
                ELSE ParseTelegramJson(request.content, tzoff)
       IN  IF r.exc # "" \/ r.val = <<>>
           THEN /\ resp' = 400
                /\ ppc' = "responded"
                /\ UNCHANGED proc_messages
           ELSE /\ proc_messages' = r.val
                /\ ppc' = "split"
                /\ UNCHANGED resp
    /\ UNCHANGED <<request, openpyxl, fmt, opts, proc_chunks, bi, zf, pexc>>
    /\ UNCHANGED <<winVars, normVars>>

\* lines 72-76
ProcSplit ==
    /\ ppc = "split"
    /\ proc_chunks' = SplitByContextBlocks(proc_messages, request.word_count,
                                          ClampOverlap(request.overlap))
    /\ zf' = <<>>
    /\ bi' = 0
    /\ ppc' = "export"
    /\ UNCHANGED <<request, openpyxl, fmt, opts, proc_messages, resp, pexc>>
    /\ UNCHANGED <<winVars, normVars>>

\* lines 78-99: the next block written to the archive, and after the last
\* one the archive answered; a RuntimeError of export_excel becomes a 500,
\* any other exception leaves the handler
ProcExport ==
    /\ ppc = "export" /\ bi < Len(proc_chunks)
    /\ LET r == ExportBlock(fmt, proc_messages, proc_chunks[bi + 1], opts,
                            openpyxl)
       IN  IF r.exc = "RuntimeError"
           THEN /\ resp' = 500
                /\ ppc' = "responded"
                /\ UNCHANGED <<zf, pexc>>
           ELSE IF r.exc # ""
           THEN /\ pexc' = r.exc
                /\ ppc' = "raised"
                /\ UNCHANGED <<zf, resp>>
           ELSE /\ zf' = Append(zf, [name |-> Str_part \o IntToStr(bi + 1)
                                                \o ExtOf(fmt),
                                     content |-> r.val])
                /\ IF bi + 1 = Len(proc_chunks)
                   THEN resp' = 200 /\ ppc' = "responded"
                   ELSE UNCHANGED <<resp, ppc>>
                /\ UNCHANGED pexc
    /\ bi' = bi + 1
    /\ UNCHANGED <<request, openpyxl, fmt, opts, proc_messages, proc_chunks>>
    /\ UNCHANGED <<winVars, normVars>>

-----------------------------------------------------------------------------
(* Specifications *)

Str_file_json == <<97, 46, 74, 83, 79, 78>>          \* "a.JSON"
Str_file_txt == <<97, 46, 116, 120, 116>>            \* "a.txt"
Str_false == <<102, 97, 108, 115, 101>>
Str_xml == <<120, 109, 108>>

\* the documents uploaded to /process: one of each outcome of the parse
UploadedDocs ==
    {InvalidJson,
     PDict([foo |-> PInt(1)]),
     PDict([messages |-> PList(<<With(BaseRaw, "id", PStr(Str_abc))>>)]),
     PDict([messages |-> PList(<<BaseRaw>>)]),
     PDict([messages |-> PList(<<
         With(BaseRaw, "id", PInt(3)),
         With(With(BaseRaw, "text", Absent), "photo", PStr(Str_a)),
         With(With(With(BaseRaw, "id", PInt(2)), "reactions", PInt(2)),
              "reply_to", PInt(1))>>)])}

Requests ==
    [filename          : {<<>>, Str_file_json, Str_file_txt},
     content           : UploadedDocs,
     format            : {<<>>, Str_txt, Str_csv, Str_jsonl, Str_excel,
                          <<67, 83, 86>>, Str_xml},
     word_count        : {2, 1000},
     overlap           : {-1, 1, 25},
     include_timestamp : {Str_true, <<79, 110>>, Str_1, Str_false, <<>>},
     include_sender    : {Str_true, Str_false},
     include_reactions : {Str_true, Str_false},
     include_reply_id  : {Str_true, Str_false}]

\* the /process handler on every generated request
Init ==
    /\ request \in Requests
    /\ openpyxl \in BOOLEAN
    /\ fmt = <<>> /\ opts = None /\ proc_messages = <<>> /\ proc_chunks = <<>>
    /\ bi = 0 /\ zf = <<>> /\ resp = 0 /\ pexc = "" /\ ppc = "entry"
    /\ messages = <<>> /\ max_words = 1 /\ overlap_messages = 0
    /\ chunks = <<>> /\ current = <<>> /\ current_words = 0
    /\ overlap_buf = <<>> /\ idx = 0 /\ wpc = "idle"
    /\ data = None /\ tzoff \in TzOffsets /\ chats_raw = <<>> /\ ci = 0
    /\ chat_messages = <<>> /\ mi = 0 /\ raw = None /\ msg = None
    /\ objs = <<>> /\ out = <<>> /\ npc = "idle" /\ nexc = ""

Next == ProcValidate \/ ProcParse \/ ProcSplit \/ ProcExport

Spec == Init /\ [][Next]_vars

\* split_by_context_blocks on every generated list of messages
WinInit ==
    /\ \E f \in GenMessageLists :
          messages = [i \in DOMAIN f |-> GenMessage(i, f[i])]
    /\ max_words \in 1..MaxBudget
    /\ overlap_messages \in 0..MaxOverlap
    /\ chunks = <<>> /\ current = <<>> /\ current_words = 0
    /\ overlap_buf = <<>> /\ idx = 0 /\ wpc = "entry"
    /\ data = None /\ tzoff = 0 /\ chats_raw = <<>> /\ ci = 0
    /\ chat_messages = <<>> /\ mi = 0 /\ raw = None /\ msg = None
    /\ objs = <<>> /\ out = <<>> /\ npc = "idle" /\ nexc = ""
    /\ request = None /\ openpyxl = FALSE
    /\ fmt = <<>> /\ opts = None /\ proc_messages = <<>> /\ proc_chunks = <<>>
    /\ bi = 0 /\ zf = <<>> /\ resp = 0 /\ pexc = "" /\ ppc = "idle"

SpecWindow == WinInit /\ [][WinNext]_vars

\* parse_telegram_json on every generated document
NormInit ==
    /\ data \in Docs
    /\ tzoff \in TzOffsets
    /\ chats_raw = <<>> /\ ci = 0
    /\ chat_messages = <<>> /\ mi = 0 /\ raw = None /\ msg = None
    /\ objs = <<>> /\ out = <<>> /\ npc = "entry" /\ nexc = ""
    /\ messages = <<>> /\ max_words = 1 /\ overlap_messages = 0
    /\ chunks = <<>> /\ current = <<>> /\ current_words = 0
    /\ overlap_buf = <<>> /\ idx = 0 /\ wpc = "idle"
    /\ request = None /\ openpyxl = FALSE
    /\ fmt = <<>> /\ opts = None /\ proc_messages = <<>> /\ proc_chunks = <<>>
    /\ bi = 0 /\ zf = <<>> /\ resp = 0 /\ pexc = "" /\ ppc = "idle"

SpecNorm == NormInit /\ [][NormNext]_vars

-----------------------------------------------------------------------------
(* Properties of split_by_context_blocks *)

Min(a, b) == IF a < b THEN a ELSE b

\* the references of the input list, in order
InputRefs == [i \in 1..Len(messages) |-> i]

\* lst[n:]
DropFirst(lst, n) ==
    IF n >= Len(lst) THEN <<>> ELSE SubSeq(lst, n + 1, Len(lst))

Range(s) == {s[i] : i \in DOMAIN s}

\* the number of records block k took from its predecessor
SeedLen(k) == IF k = 1 THEN 0 ELSE Min(overlap_messages, Len(chunks[k - 1]))

\* C1: every block but possibly the last has a total word count <= max_words,
\* unless it holds exactly one record whose own word count exceeds max_words.
C1_BlocksWithinBudget ==
    wpc = "done" =>
        \A k \in 1..(Len(chunks) - 1) :
            \/ SumWords(messages, chunks[k]) <= max_words
            \/ /\ Len(chunks[k]) = 1
               /\ Words(messages, chunks[k][1]) > max_words

\* C2 as stated: dropping the first overlap_messages records of every block
\* but the first and concatenating the rest gives back the input.
C2_StripOverlapCount ==
    wpc = "done" =>
        Concat([k \in 1..Len(chunks) |->
                    IF k = 1 THEN chunks[k]
                    ELSE DropFirst(chunks[k], overlap_messages)]) = InputRefs

\* C2 amended: dropping, from every block but the first, as many leading
\* records as were seeded from its predecessor (overlap_messages, or the
\* predecessor's length when that is smaller) and concatenating the rest
\* gives back the input: same records, same order, none missing or repeated.
C2_StripSeedReproducesInput ==
    wpc = "done" =>
        Concat([k \in 1..Len(chunks) |->
                    DropFirst(chunks[k], SeedLen(k))]) = InputRefs

C2_Witness ==
    /\ wpc = "done"
    /\ \E k \in 2..Len(chunks) :
          /\ Len(chunks[k - 1]) < overlap_messages
          /\ Len(chunks[k]) > SeedLen(k)

\* C3: every block after the first starts with the trailing overlap_messages
\* records of its predecessor (the same references, in the same order); with
\* the whole predecessor when it is shorter, and with no record of it when
\* overlap_messages is 0.
C3_OverlapPrefix ==
    wpc = "done" =>
        \A k \in 2..Len(chunks) :
            LET prev == chunks[k - 1]
                n    == Min(overlap_messages, Len(prev))
            IN  /\ Len(chunks[k]) >= n
                /\ SubSeq(chunks[k], 1, n)
                       = SubSeq(prev, Len(prev) - n + 1, Len(prev))
                /\ overlap_messages = 0
                       => Range(chunks[k]) \cap Range(prev) = {}

C3_Witness ==
    /\ wpc = "done"
    /\ overlap_messages >= 1
    /\ \E k \in 2..Len(chunks) : Len(chunks[k - 1]) > overlap_messages

\* C8: with overlap_messages = 0 the blocks partition the input: no record
\* is in two blocks and the blocks, concatenated, are the input.
C8_ZeroOverlapPartition ==
    (wpc = "done" /\ overlap_messages = 0) =>
        /\ Concat(chunks) = InputRefs
        /\ \A j, k \in 1..Len(chunks) :
               j # k => Range(chunks[j]) \cap Range(chunks[k]) = {}

C8_Witness ==
    /\ wpc = "done" /\ overlap_messages = 0
    /\ Len(chunks) >= 2
    /\ \E k \in 1..Len(chunks) : Len(chunks[k]) >= 2

\* C10: an empty input gives no block; otherwise every block is non-empty
\* and holds at least one record after its overlap seed, so there are at
\* most as many blocks as records, and the last record of the input is the
\* last record of the last block.
C10_BlocksNonEmpty ==
    /\ (wpc = "done" /\ messages = <<>>) => chunks = <<>>
    /\ (wpc = "done" /\ messages # <<>>) =>
          /\ chunks # <<>>
          /\ \A k \in 1..Len(chunks) :
                /\ chunks[k] # <<>>
                /\ Len(chunks[k]) > SeedLen(k)
                /\ \A j \in 1..(k - 1) :
                       chunks[k][Len(chunks[k])] \notin Range(chunks[j])
          /\ Len(chunks) <= Len(messages)
          /\ LET last == chunks[Len(chunks)]
             IN  last[Len(last)] = Len(messages)
    /\ (wpc \in {"loop", "flush"} /\ idx > 1) =>
          Len(current) > Len(overlap_buf)

C10_Witness ==
    /\ wpc = "done"
    /\ overlap_messages >= 1
    /\ Len(chunks) >= 3
    /\ Len(chunks) < Len(messages)

-----------------------------------------------------------------------------
(* Properties of parse_telegram_json *)

\* the document is a mapping whose chats are mappings and whose message
\* lists are lists: only fields of messages can be malformed
WellShaped(doc) ==
    /\ IsDict(doc)
    /\ IsList(ChatsRaw(doc).chats)
    /\ \A i \in DOMAIN ChatsRaw(doc).chats.v :
          /\ IsDict(ChatsRaw(doc).chats.v[i])
          /\ IsList(ChatMessages(ChatsRaw(doc).chats.v[i]))

\* C4: on a mapping-typed document with malformed fields (a wrong type, a
\* non-numeric id, reply target or reaction count, an epoch out of range)
\* parse_telegram_json does not raise: the field takes its default and the
\* call returns.
C4_NeverRaises ==
    WellShaped(data) => npc # "raised"

\* _parse_message was called on raw and returned msg
Returned == npc \in {"msg", "chat", "returned"} /\ raw # None

\* the text _extract_text gives for raw is empty
EmptyText == ExtractText(GetOr(raw, "text", PStr(<<>>))) = Ok(<<>>)

C6_SortedStable ==
    npc = "returned" =>
        /\ Len(out) = Len(objs)
        /\ Range(out) = DOMAIN objs
        /\ \A i, j \in DOMAIN out :
              i < j =>
                 LET a == objs[out[i]]
                     b == objs[out[j]]
                 IN  \/ StrLess(a.timestamp, b.timestamp)
                     \/ /\ a.timestamp = b.timestamp
                        /\ \/ a.message_id < b.message_id
                           \/ /\ a.message_id = b.message_id
                              /\ out[i] < out[j]

C6_Witness ==
    /\ npc = "returned" /\ Len(out) >= 3
    /\ \E i \in DOMAIN out : out[i] # i
    /\ \E i, j \in DOMAIN out :
          /\ i < j
          /\ objs[out[i]].timestamp = objs[out[j]].timestamp
          /\ objs[out[i]].message_id = objs[out[j]].message_id
          /\ objs[out[i]] # objs[out[j]]
    /\ Len(chats_raw) = 2

\* C9: every record has reactions_count >= 0, whatever the raw reactions
\* value is.
C9_ReactionsNonNegative ==
    \A i \in DOMAIN objs : objs[i].reactions_count >= 0

-----------------------------------------------------------------------------
(* Properties of the exporters under /process *)

CanonicalAttributes ==
    {"message_id", "text_content", "timestamp", "sender_id", "sender_name",
     "reply_to_id", "reactions_count"}

\* the keys the four flags select
SelectedKeys(o) ==
    {"message_id", "text_content"}
    \cup (IF o.include_timestamp THEN {"timestamp"} ELSE {})
    \cup (IF o.include_sender THEN {"sender_id", "sender_name"} ELSE {})
    \cup (IF o.include_reply_id THEN {"reply_to_id"} ELSE {})
    \cup (IF o.include_reactions THEN {"reactions_count"} ELSE {})

\* C7: for every record and every combination of the four flags, the row
\* projection of the formatter /process calls succeeds reading only the
\* seven canonical attributes, and the row holds just the fields the flags
\* select.
C7_RowProjection ==
    /\ pexc # "AttributeError"
    /\ ppc = "export" =>
          \A i \in DOMAIN proc_messages :
              /\ DOMAIN proc_messages[i] = CanonicalAttributes
              /\ Row(proc_messages[i], opts).exc = ""
              /\ Range(Keys(Row(proc_messages[i], opts).val)) = SelectedKeys(opts)

=============================================================================
